---- MODULE Spec2Model ----
(***************************************************************************)
(* Model of scripts/update_readme.py: the notebook-list synchronizer that  *)
(* scans the top-level directories of a repository for notebooks, renders  *)
(* a Markdown list and splices it between two markers of the root README.  *)
(*                                                                         *)
(* A text is a string.  A character the lexer does not take in a string    *)
(* (any non-ASCII character, the backquote) is written {U+XXXX}, its code  *)
(* point; no text of the model holds "{U+" otherwise.                      *)
(* An Optional[str] is a sequence: <<>> for None, <<s>> for the str s.     *)
(***************************************************************************)
EXTENDS Integers, Sequences, FiniteSets, TLC

VARIABLES
    readme,     \* <repo_root>/README.md on disk: <<content>>, or <<>> when there is no such file
    tree,       \* the entries of repo_root: name -> entry
    environ,    \* value of os.getenv("ZIKUU_GITHUB_REPO", "")
    remote,     \* what `git config --get remote.origin.url` does: failure or its output
    now,        \* the wall clock read by datetime.now(timezone.utc)
    exit_code,  \* exit status of the last run of main (0 before any run)
    stdout,     \* the lines the last run of main printed
    stderr,     \* the message of the error that ended the last run of main, "" when none
    fresh,      \* TRUE when nothing changed on disk, in the environment or clock since the last run
    runs,       \* number of runs of main so far
    call        \* the last call of a function under test: its arguments and return value

vars == <<readme, tree, environ, remote, now, exit_code, stdout, stderr, fresh, runs, call>>

None == <<>>
Some(s) == <<s>>
NoFile == <<>>
NoCall == [fn |-> "none"]

\* ---------------------------------------------------------------- text

\* s[i - 1] of Python: the i-th character, counting from 1
Char(s, i) == SubSeq(s, i, i)

\* s[:k] and s[k:] of Python, k a 0-based offset within the text
Take(s, k) == SubSeq(s, 1, k)
Drop(s, k) == SubSeq(s, k + 1, Len(s))

\* sub occurs in s at 0-based offset i (the first characters are compared first, which
\* spares the evaluator most of the substrings)
OccursAt(s, sub, i) ==
    /\ i >= 0
    /\ i + Len(sub) <= Len(s)
    /\ sub = "" \/ Char(s, i + 1) = Char(sub, 1)
    /\ SubSeq(s, i + 1, i + Len(sub)) = sub

\* Python: sub in s
Contains(s, sub) == \E i \in 0..(Len(s) - Len(sub)) : OccursAt(s, sub, i)

\* Python: s.index(sub), for a sub that occurs in s: the lowest offset
Index(s, sub) ==
    CHOOSE i \in 0..(Len(s) - Len(sub)) :
        OccursAt(s, sub, i) /\ \A j \in 0..(i - 1) : ~OccursAt(s, sub, j)

RECURSIVE Concat(_)
Concat(ss) == IF ss = <<>> THEN "" ELSE Head(ss) \o Concat(Tail(ss))

\* ------------------------------------------------------------- constants

BEGIN_MARKER == "<!-- ZIKUU_NOTEBOOKS_LIST:BEGIN -->"
END_MARKER == "<!-- ZIKUU_NOTEBOOKS_LIST:END -->"

\* ------------------------------------------------ _replace_between_markers

MSG_NO_MARKERS == "RuntimeError: markers not found in README.md (BEGIN/END)"
MSG_BAD_ORDER == "RuntimeError: marker order is invalid (END before BEGIN)"

Raise(msg) == [raised |-> TRUE, msg |-> msg]
Return(v) == [raised |-> FALSE, value |-> v]

\* variant: cuts after the END marker instead of before it
replace_dropping_end(readme_text, new_block) ==
    IF ~Contains(readme_text, BEGIN_MARKER) \/ ~Contains(readme_text, END_MARKER)
    THEN Raise(MSG_NO_MARKERS)
    ELSE LET begin_idx == Index(readme_text, BEGIN_MARKER) + Len(BEGIN_MARKER)
             end_idx == Index(readme_text, END_MARKER)
         IN  IF end_idx < begin_idx
             THEN Raise(MSG_BAD_ORDER)
             ELSE Return(Take(readme_text, begin_idx) \o "\n" \o new_block
                         \o Drop(readme_text, end_idx + Len(END_MARKER)))

\* variant: no check of the order of the markers
replace_unordered(readme_text, new_block) ==
    IF ~Contains(readme_text, BEGIN_MARKER) \/ ~Contains(readme_text, END_MARKER)
    THEN Raise(MSG_NO_MARKERS)
    ELSE Return(Take(readme_text, Index(readme_text, BEGIN_MARKER) + Len(BEGIN_MARKER))
                \o "\n" \o new_block \o Drop(readme_text, Index(readme_text, END_MARKER)))

\* variant: the new block without the newline before it
replace_no_newline(readme_text, new_block) ==
    IF ~Contains(readme_text, BEGIN_MARKER) \/ ~Contains(readme_text, END_MARKER)
    THEN Raise(MSG_NO_MARKERS)
    ELSE LET begin_idx == Index(readme_text, BEGIN_MARKER) + Len(BEGIN_MARKER)
             end_idx == Index(readme_text, END_MARKER)
         IN  IF end_idx < begin_idx
             THEN Raise(MSG_BAD_ORDER)
             ELSE Return(Take(readme_text, begin_idx) \o new_block \o Drop(readme_text, end_idx))

replace_between_markers(readme_text, new_block) ==
    IF ~Contains(readme_text, BEGIN_MARKER) \/ ~Contains(readme_text, END_MARKER)
    THEN Raise(MSG_NO_MARKERS)
    ELSE LET begin_idx == Index(readme_text, BEGIN_MARKER) + Len(BEGIN_MARKER)
             end_idx == Index(readme_text, END_MARKER)
             before == Take(readme_text, begin_idx)
             after == Drop(readme_text, end_idx)
         IN  IF end_idx < begin_idx
             THEN Raise(MSG_BAD_ORDER)
             ELSE Return(before \o "\n" \o new_block \o after)

\* ------------------------------------------------------- Python str helpers

\* str.isspace() of one character: the whitespace that \s, strip() and rstrip() treat alike
\* (the vertical tab and the separators U+001C..U+001F occur in no text of the model)
IsSpace(c) == c \in {" ", "\t", "\n", "\r", "\f"}

AllSpace(s) == \A i \in 1..Len(s) : IsSpace(Char(s, i))

\* number of whitespace characters s starts with / ends with
LeadSpaces(s) ==
    CHOOSE k \in 0..Len(s) :
        /\ \A j \in 1..k : IsSpace(Char(s, j))
        /\ k = Len(s) \/ ~IsSpace(Char(s, k + 1))
TrailSpaces(s) ==
    CHOOSE k \in 0..Len(s) :
        /\ \A j \in 1..k : IsSpace(Char(s, Len(s) + 1 - j))
        /\ k = Len(s) \/ ~IsSpace(Char(s, Len(s) - k))

\* str.rstrip() and str.strip()
rstrip(s) == Take(s, Len(s) - TrailSpaces(s))
strip(s) == LET r == rstrip(s) IN Drop(r, LeadSpaces(r))

\* str.startswith / str.endswith
startswith(s, p) == OccursAt(s, p, 0)
endswith(s, p) == OccursAt(s, p, Len(s) - Len(p))

\* sep.join(parts)
RECURSIVE join(_, _)
join(sep, parts) ==
    IF parts = <<>> THEN ""
    ELSE IF Len(parts) = 1 THEN parts[1]
    ELSE parts[1] \o sep \o join(sep, Tail(parts))

\* str.splitlines(): lines end at "\n", "\r" or "\r\n"; no empty last line
RECURSIVE splitlines(_)
splitlines(s) ==
    IF s = "" THEN <<>>
    ELSE LET brk == {i \in 1..Len(s) : Char(s, i) \in {"\n", "\r"}}
         IN  IF brk = {} THEN <<s>>
             ELSE LET i == CHOOSE j \in brk : \A k \in brk : j <= k
                      w == IF Char(s, i) = "\r" /\ i < Len(s) /\ Char(s, i + 1) = "\n" THEN 2 ELSE 1
                  IN  <<Take(s, i - 1)>> \o splitlines(Drop(s, i - 1 + w))

\* printable ASCII in code point order (without the backquote, which no name of the model
\* holds); ord(c) is the rank of c in it, which orders characters as their code points do
ASCII == " !\"#$%&'()*+,-./0123456789:;<=>?@ABCDEFGHIJKLMNOPQRSTUVWXYZ[\\]^_abcdefghijklmnopqrstuvwxyz{|}~"
ord(c) == CHOOSE i \in 1..Len(ASCII) : Char(ASCII, i) = c

\* a < b on str: lexicographic by code point
RECURSIVE StrLess(_, _)
StrLess(a, b) ==
    IF b = "" THEN FALSE
    ELSE IF a = "" THEN TRUE
    ELSE IF Head(a) = Head(b) THEN StrLess(Tail(a), Tail(b))
    ELSE ord(Head(a)) < ord(Head(b))

\* variant: descending order
RECURSIVE sorted_descending(_)
sorted_descending(S) ==
    IF S = {} THEN <<>>
    ELSE LET m == CHOOSE x \in S : \A y \in S \ {x} : StrLess(y, x)
         IN  <<m>> \o sorted_descending(S \ {m})

\* sorted(S) of a set of distinct str
RECURSIVE sorted(_)
sorted(S) ==
    IF S = {} THEN <<>>
    ELSE LET m == CHOOSE x \in S : \A y \in S \ {x} : StrLess(x, y)
         IN  <<m>> \o sorted(S \ {m})

\* ----------------------------------------------------- _read_text, _write_text

\* Path.read_text(encoding="utf-8"): text mode, universal newlines: "\r\n" and "\r" read as "\n"
RECURSIVE read_text(_)
read_text(bytes) ==
    LET cr == {i \in 1..Len(bytes) : Char(bytes, i) = "\r"}
    IN  IF cr = {} THEN bytes
        ELSE LET i == CHOOSE j \in cr : \A k \in cr : j <= k
                 w == IF i < Len(bytes) /\ Char(bytes, i + 1) = "\n" THEN 2 ELSE 1
             IN  Take(bytes, i - 1) \o "\n" \o read_text(Drop(bytes, i - 1 + w))

\* Path.write_text(text, encoding="utf-8", newline="\n"): "\n" is written as is
write_text(text) == text

\* ------------------------------------------------------ _first_h1_from_readme

\* re.match(r"^\s*#\s+(.+?)\s*$", line): the ways the pattern covers the line,
\* <<a, k, g>> = lengths of the leading \s*, of \s+ and of the group (.+?)
H1Matches(line) ==
    LET n == Len(line)
        leads == {a \in 0..(n - 1) :
                     Char(line, a + 1) = "#" /\ \A i \in 1..a : IsSpace(Char(line, i))}
        gaps(a) == {k \in 1..(n - a - 1) : \A i \in (a + 2)..(a + 1 + k) : IsSpace(Char(line, i))}
        groups(a, k) == {g \in 1..(n - a - 1 - k) :
                            /\ \A i \in (a + 2 + k)..(a + 1 + k + g) : Char(line, i) # "\n"
                            /\ \A i \in (a + 2 + k + g)..n : IsSpace(Char(line, i))}
    IN  UNION {UNION {{<<a, k, g>> : g \in groups(a, k)} : k \in gaps(a)} : a \in leads}

\* the match the backtracking finds first: \s* and \s+ greedy, (.+?) lazy
H1Match(line) ==
    CHOOSE m \in H1Matches(line) :
        \A o \in H1Matches(line) :
            \/ m[1] > o[1]
            \/ m[1] = o[1] /\ m[2] > o[2]
            \/ m[1] = o[1] /\ m[2] = o[2] /\ m[3] <= o[3]

\* m.group(1)
H1Group(line) ==
    LET m == H1Match(line) IN SubSeq(line, m[1] + 2 + m[2], m[1] + 1 + m[2] + m[3])

\* the loop over text.splitlines(): the first matching line returns
RECURSIVE first_h1_lines(_)
first_h1_lines(lines) ==
    IF lines = <<>> THEN None
    ELSE IF H1Matches(Head(lines)) # {} THEN Some(strip(H1Group(Head(lines))))
    ELSE first_h1_lines(Tail(lines))

\* dir is a directory entry; readme_path = dir / "README.md"
README_MD == "README.md"
first_h1_from_readme(dir) ==
    IF README_MD \notin DOMAIN dir.children THEN None
    ELSE first_h1_lines(splitlines(read_text(dir.children[README_MD].text)))

\* ------------------------------------------------------------ _list_modules

EXCLUDE_DIRS == {
    ".git",
    ".github",
    "__pycache__",
    ".venv",
    "venv",
    "node_modules",
    "scripts",
    ".idea",
    ".vscode"}

IPYNB == ".ipynb"

\* Python truth of an Optional[str]: neither None nor ""
Truthy(x) == x # None /\ x[1] # ""

\* variant: every child named *.ipynb counts, a regular file or not
notebooks_any_kind(dir) ==
    sorted({n \in DOMAIN dir.children : endswith(n, IPYNB)})

\* sorted([f.name for f in p.glob("*.ipynb") if f.is_file()])
notebooks_of(dir) ==
    sorted({n \in DOMAIN dir.children :
                endswith(n, IPYNB) /\ dir.children[n].kind = "file"})

\* _first_h1_from_readme(p / "README.md") or p.name
module_title(name, dir) ==
    LET h == first_h1_from_readme(dir) IN IF Truthy(h) THEN h[1] ELSE name

\* variant: only hidden directories are skipped, EXCLUDE_DIRS is not consulted
RECURSIVE list_modules_loop_no_exclude(_, _)
list_modules_loop_no_exclude(root, names) ==
    IF names = <<>> THEN <<>>
    ELSE LET name == Head(names)
             p == root[name]
             rest == list_modules_loop_no_exclude(root, Tail(names))
         IN  IF p.kind # "dir" THEN rest
             ELSE IF startswith(name, ".") THEN rest
             ELSE IF notebooks_of(p) = <<>> THEN rest
             ELSE <<[module_dir |-> name,
                     module_title |-> module_title(name, p),
                     notebooks |-> notebooks_of(p)]>> \o rest

\* the body of the loop over sorted(repo_root.iterdir(), key=name), names being what is left of it
RECURSIVE list_modules_loop(_, _)
list_modules_loop(root, names) ==
    IF names = <<>> THEN <<>>
    ELSE LET name == Head(names)
             p == root[name]
             rest == list_modules_loop(root, Tail(names))
         IN  IF p.kind # "dir" THEN rest
             ELSE IF name \in EXCLUDE_DIRS THEN rest
             ELSE IF startswith(name, ".") THEN rest
             ELSE IF notebooks_of(p) = <<>> THEN rest
             ELSE <<[module_dir |-> name,
                     module_title |-> module_title(name, p),
                     notebooks |-> notebooks_of(p)]>> \o rest

\* variant: the entries are taken in descending order of name
list_modules_descending(root) == list_modules_loop(root, sorted_descending(DOMAIN root))

list_modules(root) == list_modules_loop(root, sorted(DOMAIN root))

\* ------------------------------------------------------ _detect_github_repo

\* _run_git: the stripped output, or None when check_output raises (no git, non-zero exit)
run_git(git) == IF git.status = "ok" THEN Some(strip(git.out)) ELSE None

HTTPS_PREFIXES == {"https://github.com/", "http://github.com/"}
SSH_PREFIXES == {"git@github.com:"}
DOT_GIT == ".git"

\* ([^/]+)/([^/]+?)(?:\.git)?<slash>$ matched against s, <slash> being /? or nothing:
\* <<o, r>> = lengths of the two groups
OwnerRepoMatches(s, tails) ==
    {m \in (1..Len(s)) \X (1..Len(s)) :
        LET o == m[1]
            r == m[2]
        IN  /\ o + 1 + r <= Len(s)
            /\ \A i \in 1..o : Char(s, i) # "/"
            /\ Char(s, o + 1) = "/"
            /\ \A i \in (o + 2)..(o + 1 + r) : Char(s, i) # "/"
            /\ Drop(s, o + 1 + r) \in tails}

\* the match found first: ([^/]+) greedy, ([^/]+?) lazy
OwnerRepo(s, tails) ==
    LET ms == OwnerRepoMatches(s, tails)
        m == CHOOSE x \in ms : \A y \in ms : x[1] > y[1] \/ (x[1] = y[1] /\ x[2] <= y[2])
    IN  Take(s, m[1]) \o "/" \o SubSeq(s, m[1] + 2, m[1] + 1 + m[2])

\* what may follow the repository name: (?:\.git)?/?$ and (?:\.git)?$
HTTPS_TAILS == {"", DOT_GIT, "/", DOT_GIT \o "/"}
SSH_TAILS == {"", DOT_GIT}

parse_github_repo_from_remote(url) ==
    LET remote_url == strip(url)
        https == {p \in HTTPS_PREFIXES :
                     startswith(remote_url, p) /\ OwnerRepoMatches(Drop(remote_url, Len(p)), HTTPS_TAILS) # {}}
        ssh == {p \in SSH_PREFIXES :
                   startswith(remote_url, p) /\ OwnerRepoMatches(Drop(remote_url, Len(p)), SSH_TAILS) # {}}
    IN  IF https # {}
        THEN Some(OwnerRepo(Drop(remote_url, Len(CHOOSE p \in https : TRUE)), HTTPS_TAILS))
        ELSE IF ssh # {}
        THEN Some(OwnerRepo(Drop(remote_url, Len(CHOOSE p \in ssh : TRUE)), SSH_TAILS))
        ELSE None

\* variant: the git remote is asked first, the environment variable second
detect_remote_first(env, git) ==
    LET env_repo == strip(env)
        remote_out == run_git(git)
    IN  IF Truthy(remote_out) /\ Truthy(parse_github_repo_from_remote(remote_out[1]))
        THEN parse_github_repo_from_remote(remote_out[1])
        ELSE IF env_repo # "" THEN Some(env_repo)
        ELSE None

detect_github_repo(env, git) ==
    LET env_repo == strip(env)
        remote_out == run_git(git)
    IN  IF env_repo # "" THEN Some(env_repo)
        ELSE IF Truthy(remote_out) /\ Truthy(parse_github_repo_from_remote(remote_out[1]))
        THEN parse_github_repo_from_remote(remote_out[1])
        ELSE None

\* ---------------------------------------------------- _colab_link, _render_list

COLAB_PREFIX == "https://colab.research.google.com/github/"
BRANCH == "main"

colab_link(github_repo, notebook_path) ==
    COLAB_PREFIX \o github_repo \o "/blob/" \o BRANCH \o "/" \o notebook_path

DIGITS == "0123456789"

\* n in decimal, zero-padded to at least w digits (%Y, %m, %d, %H, %M, %S)
RECURSIVE Pad(_, _)
Pad(n, w) ==
    IF n < Len(DIGITS) /\ w <= 1 THEN Char(DIGITS, n + 1)
    ELSE Pad(n \div Len(DIGITS), w - 1) \o Char(DIGITS, (n % Len(DIGITS)) + 1)

\* t.strftime("%Y-%m-%d %H:%M:%SZ")
strftime(t) ==
    Pad(t.year, 4) \o "-" \o Pad(t.month, 2) \o "-" \o Pad(t.day, 2) \o " "
    \o Pad(t.hour, 2) \o ":" \o Pad(t.minute, 2) \o ":" \o Pad(t.second, 2) \o "Z"

NO_NOTEBOOKS_LINE == "- {U+FF08}{U+307E}{U+3060}Notebook{U+304C}{U+3042}{U+308A}{U+307E}{U+305B}{U+3093}{U+FF09}\n"
UPDATED_LABEL == "{U+66F4}{U+65B0}: "
FALLBACK_NOTE == "{U+FF08}Colab{U+30EA}{U+30F3}{U+30AF}{U+751F}{U+6210}{U+306B}{U+306F} ZIKUU_GITHUB_REPO {U+306E}{U+8A2D}{U+5B9A}{U+304C}{U+5FC5}{U+8981}{U+FF09}"
BACKQUOTE == "{U+0060}"

notebook_line(it, nb, github_repo) ==
    LET rel_path == it.module_dir \o "/" \o nb
    IN  IF Truthy(github_repo)
        THEN "  - [" \o nb \o "](" \o colab_link(github_repo[1], rel_path) \o ")"
        ELSE "  - " \o BACKQUOTE \o nb \o BACKQUOTE \o FALLBACK_NOTE

RECURSIVE notebook_lines(_, _, _)
notebook_lines(it, nbs, github_repo) ==
    IF nbs = <<>> THEN <<>>
    ELSE <<notebook_line(it, Head(nbs), github_repo)>> \o notebook_lines(it, Tail(nbs), github_repo)

module_line(it) ==
    LET module_link == "./" \o it.module_dir \o "/"
    IN  "- **[" \o it.module_title \o "](" \o module_link \o ")**"

\* the loop over items: the module's line, its notebooks' lines, a blank line
RECURSIVE module_lines(_, _)
module_lines(items, github_repo) ==
    IF items = <<>> THEN <<>>
    ELSE <<module_line(Head(items))>> \o notebook_lines(Head(items), Head(items).notebooks, github_repo)
         \o <<"">> \o module_lines(Tail(items), github_repo)

render_list(items, github_repo, clock) ==
    IF items = <<>> THEN NO_NOTEBOOKS_LINE
    ELSE LET lines == <<UPDATED_LABEL \o strftime(clock) \o "\n">> \o module_lines(items, github_repo)
         IN  rstrip(join("\n", lines)) \o "\n"

\* --------------------------------------------------------------------- main

MSG_README_MISSING == "SystemExit: README.md not found"
MSG_UNCHANGED == "README.md needed no update."
MSG_UPDATED == "README.md updated."
MSG_NOTE == "NOTE: set the environment variable ZIKUU_GITHUB_REPO=\"OWNER/REPO\" to generate Colab links."

\* variant: the advisory line is printed when a repository identifier WAS found
main_note_inverted(file, root, env, git, clock) ==
    IF file = NoFile
    THEN [exit_code |-> 1, stdout |-> <<>>, stderr |-> MSG_README_MISSING, readme |-> file]
    ELSE LET github_repo == detect_github_repo(env, git)
             original == read_text(file[1])
             updated == replace_between_markers(original, render_list(list_modules(root), github_repo, clock))
         IN  IF updated.raised
             THEN [exit_code |-> 1, stdout |-> <<>>, stderr |-> updated.msg, readme |-> file]
             ELSE IF updated.value = original
             THEN [exit_code |-> 0, stdout |-> <<MSG_UNCHANGED>>, stderr |-> "", readme |-> file]
             ELSE [exit_code |-> 0,
                   stdout |-> <<MSG_UPDATED>> \o (IF Truthy(github_repo) THEN <<MSG_NOTE>> ELSE <<>>),
                   stderr |-> "",
                   readme |-> Some(write_text(updated.value))]

\* one run of main() on the given disk, environment and clock: what it prints, how it
\* exits and what README.md holds afterwards
main(file, root, env, git, clock) ==
    IF file = NoFile
    THEN [exit_code |-> 1, stdout |-> <<>>, stderr |-> MSG_README_MISSING, readme |-> file]
    ELSE LET github_repo == detect_github_repo(env, git)
             items == list_modules(root)
             new_block == render_list(items, github_repo, clock)
             original == read_text(file[1])
             updated == replace_between_markers(original, new_block)
         IN  IF updated.raised
             THEN [exit_code |-> 1, stdout |-> <<>>, stderr |-> updated.msg, readme |-> file]
             ELSE IF updated.value = original
             THEN [exit_code |-> 0, stdout |-> <<MSG_UNCHANGED>>, stderr |-> "", readme |-> file]
             ELSE [exit_code |-> 0,
                   stdout |-> <<MSG_UPDATED>> \o (IF ~Truthy(github_repo) THEN <<MSG_NOTE>> ELSE <<>>),
                   stderr |-> "",
                   readme |-> Some(write_text(updated.value))]

\* =========================================================== the disk, inputs

File(text) == [kind |-> "file", text |-> text]
Dir(children) == [kind |-> "dir", children |-> children]
NoChildren == [n \in {} |-> File("")]

\* all concatenations of at most n pieces
Texts(pieces, n) == {Concat(ps) : ps \in UNION {[1..k -> pieces] : k \in 0..n}}

INTRO_IPYNB == "intro.ipynb"
EXTRA_IPYNB == "extra.ipynb"

\* a clock that starts at 2026-11-02 00:00:00 UTC
Epoch == [year |-> 2026, month |-> 11, day |-> 2, hour |-> 0, minute |-> 0, second |-> 0]
NoRemote == [status |-> "exit1"]

\* ================================================ Spec: runs of main on a repository

MaxRuns == 2
MaxTicks == 1

\* what README.md may hold before the first run
InitReadmes == {
    NoFile,
    Some("# Notes\n"),
    Some(BEGIN_MARKER \o "\n"),
    Some(END_MARKER \o "\n" \o BEGIN_MARKER \o "\n"),
    Some(BEGIN_MARKER \o "\n" \o END_MARKER \o "\n"),
    Some("# Repo\r\n" \o BEGIN_MARKER \o "\r\nold\r\n" \o END_MARKER \o "\r\nend\r\n")}

\* the module directories that come and go between runs
MainModules == {
    <<"a", Dir(INTRO_IPYNB :> File(""))>>,
    <<"a", Dir(INTRO_IPYNB :> File("") @@ README_MD :> File("# " \o END_MARKER \o "\n"))>>,
    <<"b", Dir(INTRO_IPYNB :> File("") @@ README_MD :> File("# Project B\n"))>>}

MainEnvirons == {"", "acme/widgets"}

Init ==
    /\ readme \in InitReadmes
    /\ tree = NoChildren
    /\ environ = ""
    /\ remote = NoRemote
    /\ now = Epoch
    /\ exit_code = 0
    /\ stdout = <<>>
    /\ stderr = ""
    /\ fresh = FALSE
    /\ runs = 0
    /\ call = NoCall

\* python scripts/update_readme.py
Main ==
    /\ runs < MaxRuns
    /\ \E r \in {main(readme, tree, environ, remote, now)} :
           /\ readme' = r.readme
           /\ exit_code' = r.exit_code
           /\ stdout' = r.stdout
           /\ stderr' = r.stderr
    /\ runs' = runs + 1
    /\ fresh' = TRUE
    /\ UNCHANGED <<tree, environ, remote, now, call>>

\* between runs: a module directory is created or replaced
PutModule(name, entry) ==
    /\ IF name \in DOMAIN tree THEN tree[name] # entry ELSE TRUE
    /\ tree' = [n \in DOMAIN tree \cup {name} |-> IF n = name THEN entry ELSE tree[n]]
    /\ fresh' = FALSE
    /\ UNCHANGED <<readme, environ, remote, now, exit_code, stdout, stderr, runs, call>>

\* between runs: a module directory is removed
RemoveModule(name) ==
    /\ name \in DOMAIN tree
    /\ tree' = [n \in DOMAIN tree \ {name} |-> tree[n]]
    /\ fresh' = FALSE
    /\ UNCHANGED <<readme, environ, remote, now, exit_code, stdout, stderr, runs, call>>

\* between runs: ZIKUU_GITHUB_REPO is set or cleared
SetEnviron(v) ==
    /\ v # environ
    /\ environ' = v
    /\ fresh' = FALSE
    /\ UNCHANGED <<readme, tree, remote, now, exit_code, stdout, stderr, runs, call>>

\* between runs: a second passes
Tick ==
    /\ now.second < MaxTicks
    /\ now' = [now EXCEPT !.second = @ + 1]
    /\ fresh' = FALSE
    /\ UNCHANGED <<readme, tree, environ, remote, exit_code, stdout, stderr, runs, call>>

Next ==
    \/ Main
    \/ \E m \in MainModules : PutModule(m[1], m[2])
    \/ \E name \in {m[1] : m \in MainModules} : RemoveModule(name)
    \/ \E v \in MainEnvirons : SetEnviron(v)
    \/ Tick

Spec == Init /\ [][Next]_vars

\* ======================================= SpecReplace: _replace_between_markers alone

MaxReadmePieces == 3
MaxBlockPieces == 2

MARKER_STEM == "<!-- ZIKUU_NOTEBOOKS_LIST:"
END_TAIL == "END -->"

\* README texts are built from markers, ordinary text and the two halves of the END marker
ReplaceReadmePieces == {BEGIN_MARKER, END_MARKER, "x\n", MARKER_STEM, END_TAIL}
ReplaceBlockPieces == {BEGIN_MARKER, END_MARKER, "- x\n"}

\* nothing has run
Idle ==
    /\ readme = NoFile
    /\ now = Epoch
    /\ exit_code = 0
    /\ stdout = <<>>
    /\ stderr = ""
    /\ fresh = FALSE
    /\ runs = 0

InitReplace ==
    /\ Idle
    /\ tree = NoChildren
    /\ environ = ""
    /\ remote = NoRemote
    /\ \E t \in Texts(ReplaceReadmePieces, MaxReadmePieces), b \in Texts(ReplaceBlockPieces, MaxBlockPieces) :
           call = [fn |-> "replace_between_markers", readme_text |-> t, new_block |-> b, returned |-> FALSE]

CallReplace ==
    /\ call.fn = "replace_between_markers"
    /\ ~call.returned
    /\ call' = [fn |-> call.fn, readme_text |-> call.readme_text, new_block |-> call.new_block,
                returned |-> TRUE, ret |-> replace_between_markers(call.readme_text, call.new_block)]
    /\ UNCHANGED <<readme, tree, environ, remote, now, exit_code, stdout, stderr, fresh, runs>>

NextReplace == CallReplace

SpecReplace == InitReplace /\ [][NextReplace]_vars

\* ========================= the front of main: detection, enumeration and rendering

\* github_repo = _detect_github_repo(repo_root); items = _list_modules(repo_root);
\* new_block = _render_list(items, github_repo)
Render ==
    /\ call = NoCall
    /\ LET github_repo == detect_github_repo(environ, remote)
           items == list_modules(tree)
       IN  call' = [fn |-> "render", github_repo |-> github_repo, items |-> items,
                    new_block |-> render_list(items, github_repo, now)]
    /\ UNCHANGED <<readme, tree, environ, remote, now, exit_code, stdout, stderr, fresh, runs>>

NextRender == Render

\* ------------------------------------ SpecList: any small repository root

MaxEntries == 2

ListNames == {"a", "b", "Zeta", "scripts", ".git", ".hidden", "venv"}

ListEntries == {
    File(""),
    Dir(NoChildren),
    Dir("notes.txt" :> File("")),
    Dir(INTRO_IPYNB :> File("")),
    Dir(INTRO_IPYNB :> File("") @@ EXTRA_IPYNB :> File("") @@ README_MD :> File("# Project B\n")),
    Dir("sub" :> Dir(INTRO_IPYNB :> File(""))),
    Dir(INTRO_IPYNB :> Dir(NoChildren))}

Roots(names, entries, n) ==
    UNION {[S -> entries] : S \in {T \in SUBSET names : Cardinality(T) <= n}}

InitList ==
    /\ Idle
    /\ call = NoCall
    /\ tree \in Roots(ListNames, ListEntries, MaxEntries)
    /\ environ \in MainEnvirons
    /\ remote = NoRemote

SpecList == InitList /\ [][NextRender]_vars

\* ------------------------------------ SpecTitle: one module directory, any README.md

MaxReadmeLines == 2

TitleLines == {"# Title", "#  ", "## Sub", "text", "  #\tTabbed  ", "#", "#x", ""}

TitleReadmes == {Concat([i \in DOMAIN ls |-> ls[i] \o "\n"]) :
                    ls \in UNION {[1..k -> TitleLines] : k \in 0..MaxReadmeLines}}

InitTitle ==
    /\ Idle
    /\ call = NoCall
    /\ \/ tree = "a" :> Dir(INTRO_IPYNB :> File(""))
       \/ \E t \in TitleReadmes : tree = "a" :> Dir(INTRO_IPYNB :> File("") @@ README_MD :> File(t))
    /\ environ = ""
    /\ remote = NoRemote

SpecTitle == InitTitle /\ [][NextRender]_vars

\* ------------------------------------ SpecRepo: any environment and git remote

RepoEnvirons == {"", "  ", " acme/widgets ", "o/r"}
RemotePrefixes == HTTPS_PREFIXES \cup SSH_PREFIXES \cup {"https://gitlab.com/", "ssh://git@github.com/"}
RemoteOwners == {"acme"}
RemoteRepos == {"widgets", "w.x"}
RemoteSuffixes == {"", ".git", "/", ".git/", "/tree"}

\* git prints the configured URL and a newline; the parts it was built from are kept beside it
Remotes ==
    {[status |-> "no_git"], NoRemote, [status |-> "ok", out |-> "\n"]}
    \cup {[status |-> "ok", out |-> p \o o \o "/" \o r \o s \o "\n",
           prefix |-> p, owner |-> o, repo |-> r, suffix |-> s] :
            p \in RemotePrefixes, o \in RemoteOwners, r \in RemoteRepos, s \in RemoteSuffixes}

RepoTree ==
    "a" :> Dir(INTRO_IPYNB :> File("") @@ EXTRA_IPYNB :> File(""))
    @@ "b" :> Dir(INTRO_IPYNB :> File("") @@ README_MD :> File("# Project B\n"))

InitRepo ==
    /\ Idle
    /\ call = NoCall
    /\ tree = RepoTree
    /\ environ \in RepoEnvirons
    /\ remote \in Remotes

SpecRepo == InitRepo /\ [][NextRender]_vars

\* ==================================================================== claims

\* both markers occur in the text and the first END marker starts at or after the end
\* of the first BEGIN marker
MarkersInOrder(text) ==
    /\ Contains(text, BEGIN_MARKER)
    /\ Contains(text, END_MARKER)
    /\ Index(text, BEGIN_MARKER) + Len(BEGIN_MARKER) <= Index(text, END_MARKER)

\* C1: for a README text with both markers in valid order and any new block, the result
\* of _replace_between_markers starts with the text up to and including the first BEGIN
\* marker, ends with the text from the first END marker onward, and holds between the two
\* exactly a newline followed by the new block.
C1_ReplaceKeepsFrame ==
    (call.fn = "replace_between_markers" /\ call.returned /\ MarkersInOrder(call.readme_text)) =>
        LET text == call.readme_text
            head == Index(text, BEGIN_MARKER) + Len(BEGIN_MARKER)
            tail == Len(text) - Index(text, END_MARKER)
        IN  /\ ~call.ret.raised
            /\ Len(call.ret.value) = head + 1 + Len(call.new_block) + tail
            /\ SubSeq(call.ret.value, 1, head) = SubSeq(text, 1, head)
            /\ SubSeq(call.ret.value, Len(call.ret.value) - tail + 1, Len(call.ret.value))
                   = SubSeq(text, Len(text) - tail + 1, Len(text))
            /\ SubSeq(call.ret.value, head + 1, Len(call.ret.value) - tail)
                   = "\n" \o call.new_block

\* a block that itself holds the END marker was spliced into a README with text around the markers
C1_Witness ==
    /\ call.fn = "replace_between_markers"
    /\ call.returned
    /\ MarkersInOrder(call.readme_text)
    /\ Contains(call.new_block, END_MARKER)
    /\ Index(call.readme_text, BEGIN_MARKER) > 0
    /\ ~call.ret.raised

\* C2: with the clock, the disk and the environment as the last successful run left them,
\* a further run computes exactly the README content that run left, so it writes nothing
\* and reports that no update was needed.
C2_SecondRunIsNoOp ==
    (runs > 0 /\ exit_code = 0 /\ fresh) =>
        LET again == main(readme, tree, environ, remote, now)
        IN  /\ again.readme = readme
            /\ again.stdout = <<MSG_UNCHANGED>>

\* the README is absent, lacks a marker, or has its first END marker before its first BEGIN marker
MarkersUnusable(file) ==
    \/ file = NoFile
    \/ ~Contains(file[1], BEGIN_MARKER)
    \/ ~Contains(file[1], END_MARKER)
    \/ Index(file[1], END_MARKER) < Index(file[1], BEGIN_MARKER)

\* C3: a run that finds no README, or a README without one of the markers or with the
\* first END marker before the first BEGIN marker, ends with a non-zero exit status,
\* prints no status line and leaves the README as it was.
C3_FatalRunWritesNothing ==
    [][(runs' = runs + 1 /\ MarkersUnusable(readme)) =>
           (exit_code' # 0 /\ stderr' # "" /\ stdout' = <<>> /\ readme' = readme)]_vars

\* a run has just failed on a README whose END marker precedes its BEGIN marker
C3_Witness ==
    /\ runs > 0
    /\ exit_code = 1
    /\ readme # NoFile
    /\ Contains(readme[1], BEGIN_MARKER)
    /\ Contains(readme[1], END_MARKER)
    /\ Index(readme[1], END_MARKER) < Index(readme[1], BEGIN_MARKER)

StatusLines == {MSG_UPDATED, MSG_UNCHANGED}
NumStatusLines(out) == Cardinality({i \in DOMAIN out : out[i] \in StatusLines})
Printed(out, msg) == \E i \in DOMAIN out : out[i] = msg

\* C4 as stated: every successful run prints exactly one status line and, whenever no
\* repository identifier was found, the advisory line too, whether or not it rewrote the README.
C4_AdvisoryWheneverNoRepo ==
    (runs > 0 /\ exit_code = 0 /\ fresh) =>
        /\ NumStatusLines(stdout) = 1
        /\ (~Truthy(detect_github_repo(environ, remote)) => Printed(stdout, MSG_NOTE))

\* C4 amended: every successful run prints exactly one status line, first; the advisory
\* line is printed exactly when no repository identifier was found and the README was
\* rewritten, and never by a run that found the README up to date.
C4_AdvisoryOnlyOnRewrite ==
    (runs > 0 /\ exit_code = 0 /\ fresh) =>
        /\ NumStatusLines(stdout) = 1
        /\ stdout[1] \in StatusLines
        /\ Printed(stdout, MSG_NOTE) <=>
               (stdout[1] = MSG_UPDATED /\ ~Truthy(detect_github_repo(environ, remote)))

\* a successful run without a repository identifier found the README up to date
C4_Witness ==
    /\ runs > 0
    /\ exit_code = 0
    /\ fresh
    /\ stdout = <<MSG_UNCHANGED>>
    /\ ~Truthy(detect_github_repo(environ, remote))

\* C10: only a run of main changes the README, and a run that finds both markers in valid
\* order succeeds and leaves both markers in valid order: from a README with valid markers
\* on, whatever modules, titles and clock the runs meet, no run fails with a marker error.
C10_MarkersStayValid ==
    [][/\ (runs' = runs => readme' = readme)
       /\ (runs' = runs + 1 /\ readme # NoFile /\ MarkersInOrder(readme[1])) =>
              /\ exit_code' = 0
              /\ readme' # NoFile
              /\ MarkersInOrder(readme'[1])]_vars

\* after two runs the README holds a second END marker, written as part of a block, and
\* its markers are still in valid order
C10_Witness ==
    /\ runs >= 2
    /\ exit_code = 0
    /\ readme # NoFile
    /\ MarkersInOrder(readme[1])
    /\ Contains(Drop(readme[1], Index(readme[1], END_MARKER) + 1), END_MARKER)

\* a line is a heading with one "#": trimmed, it starts with "#", then whitespace, then content
QualifiesAsH1(line) ==
    LET t == strip(line) IN Len(t) >= 3 /\ Char(t, 1) = "#" /\ IsSpace(Char(t, 2))
H1Content(line) == strip(Drop(strip(line), 1))

ReadmeLines(dir) == splitlines(read_text(dir.children[README_MD].text))
HasQualifyingLine(dir) ==
    /\ README_MD \in DOMAIN dir.children
    /\ \E i \in DOMAIN ReadmeLines(dir) : QualifiesAsH1(ReadmeLines(dir)[i])
FirstQualifyingLine(dir) ==
    LET ls == ReadmeLines(dir)
    IN  ls[CHOOSE i \in DOMAIN ls :
               QualifiesAsH1(ls[i]) /\ \A j \in 1..(i - 1) : ~QualifiesAsH1(ls[j])]

\* C5: the title of every module entry is the trimmed content of the first line of the
\* directory's README.md that is a single-# heading with content, lines that do not qualify
\* being passed over; it is the directory name exactly when there is no README.md or no
\* line qualifies.
C5_TitleIsFirstQualifyingLine ==
    call.fn = "render" =>
        \A i \in DOMAIN call.items :
            LET it == call.items[i]
                dir == tree[it.module_dir]
            IN  /\ HasQualifyingLine(dir) => it.module_title = H1Content(FirstQualifyingLine(dir))
                /\ it.module_title = it.module_dir <=> ~HasQualifyingLine(dir)

IsExcludedName(name) ==
    \/ name \in {".git", ".github", "__pycache__", ".venv", "venv", "node_modules",
                 "scripts", ".idea", ".vscode"}
    \/ Char(name, 1) = "."

\* C6: a top-level directory whose name is in the exclusion set or starts with "." gives no
\* module entry and occurs in the rendered block neither as a module link nor in a
\* notebook path, whatever it holds.
C6_ExcludedNeverListed ==
    call.fn = "render" =>
        \A name \in DOMAIN tree :
            IsExcludedName(name) =>
                /\ \A i \in DOMAIN call.items : call.items[i].module_dir # name
                /\ ~Contains(call.new_block, "](./" \o name \o "/)")
                /\ ~Contains(call.new_block, "/blob/main/" \o name \o "/")

\* an excluded directory and a hidden one, both holding notebooks, beside a listed module
C6_Witness ==
    /\ call.fn = "render"
    /\ \E name \in DOMAIN tree :
           /\ name \in {"scripts", ".hidden"}
           /\ tree[name].kind = "dir"
           /\ INTRO_IPYNB \in DOMAIN tree[name].children
           /\ tree[name].children[INTRO_IPYNB].kind = "file"
    /\ Len(call.items) = 1
    /\ call.github_repo # None

\* the directory has a regular file named *.ipynb among its direct children
HasDirectNotebook(dir) ==
    \E n \in DOMAIN dir.children :
        /\ Len(n) >= 6
        /\ SubSeq(n, Len(n) - 5, Len(n)) = ".ipynb"
        /\ dir.children[n].kind = "file"

\* C7: a top-level directory without a notebook file among its direct children gives no
\* module entry and no line of the block; every module entry has a non-empty notebook list.
C7_NoNotebookNoEntry ==
    call.fn = "render" =>
        /\ \A i \in DOMAIN call.items : call.items[i].notebooks # <<>>
        /\ \A name \in DOMAIN tree :
               (tree[name].kind = "dir" /\ ~HasDirectNotebook(tree[name])) =>
                   /\ \A i \in DOMAIN call.items : call.items[i].module_dir # name
                   /\ ~Contains(call.new_block, "](./" \o name \o "/)")
                   /\ ~Contains(call.new_block, "/blob/main/" \o name \o "/")

\* a directory whose only notebook lies in a subdirectory and one whose *.ipynb child is a
\* directory were scanned, and neither is listed
C7_Witness ==
    /\ call.fn = "render"
    /\ \E n1, n2 \in DOMAIN tree :
           /\ n1 # n2
           /\ ~IsExcludedName(n1)
           /\ ~IsExcludedName(n2)
           /\ tree[n1] = Dir("sub" :> Dir(INTRO_IPYNB :> File("")))
           /\ tree[n2] = Dir(INTRO_IPYNB :> Dir(NoChildren))
    /\ call.items = <<>>
    /\ call.new_block = NO_NOTEBOOKS_LINE

StrictlyAscending(names) == \A i \in 1..(Len(names) - 1) : StrLess(names[i], names[i + 1])

\* the lines a block is expected to hold after its timestamp, in order
RECURSIVE Outline(_)
Outline(items) ==
    IF items = <<>> THEN <<>>
    ELSE <<[kind |-> "module", dir |-> Head(items).module_dir, nb |-> ""]>>
         \o [k \in DOMAIN Head(items).notebooks |->
                [kind |-> "notebook", dir |-> Head(items).module_dir, nb |-> Head(items).notebooks[k]]]
         \o Outline(Tail(items))

IsListLine(line) == startswith(line, "- **[") \/ startswith(line, "  - ")

LineShows(line, e, github_repo) ==
    IF e.kind = "module"
    THEN startswith(line, "- **[") /\ endswith(line, "](./" \o e.dir \o "/)**")
    ELSE IF github_repo = None
    THEN line = "  - " \o BACKQUOTE \o e.nb \o BACKQUOTE \o FALLBACK_NOTE
    ELSE /\ startswith(line, "  - [" \o e.nb \o "](https://colab.research.google.com/github/")
         /\ endswith(line, "/blob/main/" \o e.dir \o "/" \o e.nb \o ")")

\* C8: the entries _list_modules returns are strictly ascending by directory name (so
\* each directory occurs once), each entry's notebooks are ascending, and the block
\* lists the modules and their notebooks in that order.
C8_SortedAndRenderedInOrder ==
    call.fn = "render" =>
        /\ StrictlyAscending([i \in DOMAIN call.items |-> call.items[i].module_dir])
        /\ \A i \in DOMAIN call.items : StrictlyAscending(call.items[i].notebooks)
        /\ Cardinality({call.items[i].module_dir : i \in DOMAIN call.items})
               = Cardinality({n \in DOMAIN tree :
                                 tree[n].kind = "dir" /\ ~IsExcludedName(n) /\ HasDirectNotebook(tree[n])})
        /\ LET shown == SelectSeq(splitlines(call.new_block), IsListLine)
               expected == Outline(call.items)
           IN  /\ Len(shown) = Len(expected)
               /\ \A k \in DOMAIN expected : LineShows(shown[k], expected[k], call.github_repo)

\* two modules, "Zeta" sorting before "a", one of them with two notebooks
C8_Witness ==
    /\ call.fn = "render"
    /\ Len(call.items) = 2
    /\ call.items[1].module_dir = "Zeta"
    /\ call.items[2].module_dir = "a"
    /\ call.items[2].notebooks = <<EXTRA_IPYNB, INTRO_IPYNB>>

\* the identifier the environment and the remote are expected to give
ExpectedRepo ==
    IF environ = " acme/widgets " THEN Some("acme/widgets")
    ELSE IF environ = "o/r" THEN Some("o/r")
    ELSE IF remote.status # "ok" \/ "prefix" \notin DOMAIN remote THEN None
    ELSE IF \/ /\ remote.prefix \in {"https://github.com/", "http://github.com/"}
               /\ remote.suffix \in {"", ".git", "/", ".git/"}
            \/ /\ remote.prefix = "git@github.com:"
               /\ remote.suffix \in {"", ".git"}
    THEN Some(remote.owner \o "/" \o remote.repo)
    ELSE None

====
